---- MODULE Spec2Model ----
(***************************************************************************)
(* The CMS backend of the suborgs demo (src/GUIDE.md, section "Backend"):  *)
(* pages are SlashID (sub-)organizations, permissions are the groups a     *)
(* person holds in the page's organization, and page contents live in an   *)
(* in-memory defaultdict.  Every request handler is a coroutine; it is     *)
(* modelled one step per suspension point that separates two reads or      *)
(* writes of shared state, so that requests interleave as they do under    *)
(* asyncio.  Two platform reads are taken in one step only where the first *)
(* reads a fact that, once true, stays true (an organization exists).      *)
(***************************************************************************)
EXTENDS Integers, Sequences, FiniteSets, TLC

\* ---------------------------------------------------------------- bounds
\* Requests received in one run.
MaxRequests == 2
\* Characters of a raw path.
MaxRawLen == 3

\* ------------------------------------------------------ program constants
HTTP_200_OK == 200
HTTP_204_NO_CONTENT == 204
HTTP_401_UNAUTHORIZED == 401
HTTP_403_FORBIDDEN == 403
HTTP_404_NOT_FOUND == 404
HTTP_409_CONFLICT == 409
HTTP_500_INTERNAL_SERVER_ERROR == 500
HTTP_501_NOT_IMPLEMENTED == 501

Read == "read"
Write == "write"
Admin == "admin"
Permission == {Read, Write, Admin}

\* Optional values: None, or the one-element set holding the value.
None == {}
Some(x) == {x}
The(o) == CHOOSE x \in o : TRUE

\* ----------------------------------------------------------------- inputs
Users == {"u1", "u2"}
ADMIN_EMAILS == {"u1"}
NoToken == "no token"
BadToken == "invalid token"
Tokens == Users \cup {NoToken, BadToken}
Bodies == {"#111111", "#222222"}
Slots == {"r1", "r2"}

PagePath == {<<>>, <<"a">>, <<"a", "a">>}
ROOT_ORG_ID == <<>>

Page(public, contents) == [public |-> public, contents |-> contents]
DefaultPage == Page(FALSE, "default content")

PermissionSets == {{}, {Read}, {Admin}, {Read, Write}}
UserPermissionsPatch == [id : Users, permissions : {None} \cup {Some(s) : s \in PermissionSets}]
\* The users of a patch: the empty list, every list of one entry, and the lists
\* of two entries that keep one user admin and set or take away the groups of
\* the other.
UserPatchPairs ==
    {<<[id |-> "u1", permissions |-> Some({Admin})], [id |-> "u2", permissions |-> Some(t)]>> :
        t \in {{}, {Read, Write}}}
UserPatchLists ==
    {<<>>} \cup {<<user>> : user \in UserPermissionsPatch} \cup UserPatchPairs
PageSettingsPatch ==
    [public : {None, Some(TRUE), Some(FALSE)},
     users : {None} \cup {Some(users) : users \in UserPatchLists}]
NoUpdates == [public |-> None, users |-> None]

\* ------------------------------------------------------------------ state
VARIABLES
    orgs,       \* the organizations of the platform, each named by its page path
    persons,    \* persons[page]: the members of the page's organization
    groups,     \* groups[page][user]: the groups the person holds in that organization
    pages,      \* the in-memory pages database (a defaultdict)
    reqs,       \* the requests in flight
    response,   \* the response sent last
    nreq,       \* requests received so far
    resolution, \* a raw path on its way to a page path and an organization name
    ui,         \* one instance of the frontend's route guard
    auth,       \* the frontend's auth provider and the SlashID session
    dash,       \* one instance of the admin dashboard
    url         \* a page's URL on its way to the key of the page

vars == <<orgs, persons, groups, pages, reqs, response, nreq, resolution, ui, auth, dash, url>>
platform == <<orgs, persons, groups>>

NoRequest ==
    [kind |-> "none", pc |-> "idle", token |-> NoToken, page_path |-> <<>>,
     body |-> "", updates |-> NoUpdates, status |-> 0, permissions |-> {},
     pending |-> {}, content |-> None, public |-> None, users |-> {}]

Request(kind, token, page_path, body, updates) ==
    [NoRequest EXCEPT !.kind = kind, !.token = token, !.page_path = page_path,
                      !.body = body, !.updates = updates]

Goto(rq, pc) == [rq EXCEPT !.pc = pc]

Response(rq, status, result) ==
    [kind |-> rq.kind, token |-> rq.token,
     page_path |-> rq.page_path, status |-> status, result |-> result,
     public |-> rq.public, users |-> rq.users]

Idle(r) == reqs[r].pc = "idle" /\ nreq < MaxRequests
At(r, kind, pc) == reqs[r].kind = kind /\ reqs[r].pc = pc
\* The request is answered by the step that receives it.
Answer(rq, status, result) ==
    /\ response' = Response(rq, status, result)
    /\ nreq' = nreq + 1
    /\ UNCHANGED reqs
\* The request suspends at its first platform call.
Admit(r, rq) ==
    /\ reqs' = [reqs EXCEPT ![r] = rq]
    /\ nreq' = nreq + 1
    /\ UNCHANGED response
Step(r, rq) ==
    /\ reqs' = [reqs EXCEPT ![r] = rq]
    /\ UNCHANGED <<response, nreq>>
Finish(r, rq, status, result) ==
    /\ reqs' = [reqs EXCEPT ![r] = NoRequest]
    /\ response' = Response(rq, status, result)
    /\ UNCHANGED nreq

\* ------------------------------------------------------- building blocks
\* get_user_id: None without a token, 401 for a token that does not validate.
get_user_id(token) ==
    IF token = NoToken THEN [status |-> 0, user_id |-> None]
    ELSE IF token = BadToken THEN [status |-> HTTP_401_UNAUTHORIZED, user_id |-> None]
    ELSE [status |-> 0, user_id |-> Some(token)]

require_user_id(token) ==
    LET got == get_user_id(token) IN
    IF got.status # 0 THEN got
    ELSE IF got.user_id # None THEN got
    ELSE [status |-> HTTP_401_UNAUTHORIZED, user_id |-> None]

\* get_page_id: the organization named ROOT_ORG_NAME/path, None if there is none.
get_page_id(page_path) == IF page_path \in orgs THEN Some(page_path) ELSE None

\* A page check that also wants a record of the page in the pages database.
require_page_id_record(page_id) ==
    IF page_id # None /\ The(page_id) \in DOMAIN pages THEN [status |-> 0, page_id |-> page_id]
    ELSE [status |-> HTTP_404_NOT_FOUND, page_id |-> None]

require_page_id(page_id) ==
    IF page_id # None THEN [status |-> 0, page_id |-> page_id]
    ELSE [status |-> HTTP_404_NOT_FOUND, page_id |-> None]

\* Groups read as a hierarchy: admin brings write and read, write brings read.
get_permissions_hierarchy(user_id, page_id) ==
    IF user_id = None \/ page_id = None THEN {}
    ELSE LET held == groups[The(page_id)][The(user_id)] IN
         held \cup (IF Admin \in held THEN {Write, Read} ELSE {})
              \cup (IF Write \in held THEN {Read} ELSE {})

get_permissions(user_id, page_id) ==
    IF user_id = None \/ page_id = None THEN {}
    ELSE groups[The(page_id)][The(user_id)]

\* A permission check that lets everyone through on a public page.
wrapped_public_override(permissions, user_id, page_id) ==
    IF user_id = None THEN [status |-> HTTP_401_UNAUTHORIZED, actual_permissions |-> {}]
    ELSE IF page_id = None THEN [status |-> HTTP_404_NOT_FOUND, actual_permissions |-> {}]
    ELSE LET actual_permissions == get_permissions(user_id, page_id)
             public == The(page_id) \in DOMAIN pages /\ pages[The(page_id)].public
         IN  IF ~public /\ \E permission \in permissions : permission \notin actual_permissions
             THEN [status |-> HTTP_403_FORBIDDEN, actual_permissions |-> actual_permissions]
             ELSE [status |-> 0, actual_permissions |-> actual_permissions]

\* A permission check that does not look for the missing caller first.
wrapped_no_user_check(permissions, user_id, page_id) ==
    IF page_id = None THEN [status |-> HTTP_404_NOT_FOUND, actual_permissions |-> {}]
    ELSE LET actual_permissions == get_permissions(user_id, page_id) IN
         IF \E permission \in permissions : permission \notin actual_permissions
         THEN [status |-> HTTP_403_FORBIDDEN, actual_permissions |-> actual_permissions]
         ELSE [status |-> 0, actual_permissions |-> actual_permissions]

\* The function require_permissions(*permissions) returns.
wrapped(permissions, user_id, page_id) ==
    IF user_id = None THEN [status |-> HTTP_401_UNAUTHORIZED, actual_permissions |-> {}]
    ELSE IF page_id = None THEN [status |-> HTTP_404_NOT_FOUND, actual_permissions |-> {}]
    ELSE LET actual_permissions == get_permissions(user_id, page_id) IN
         IF \E permission \in permissions : permission \notin actual_permissions
         THEN [status |-> HTTP_403_FORBIDDEN, actual_permissions |-> actual_permissions]
         ELSE [status |-> 0, actual_permissions |-> actual_permissions]

\* require_permissions as a route dependency: FastAPI resolves require_user_id,
\* then require_page_id, then calls wrapped.
require_permissions(permissions, token, page_path) ==
    LET user == require_user_id(token)
        page == require_page_id(get_page_id(page_path))
    IN  IF user.status # 0 THEN [status |-> user.status, actual_permissions |-> {}]
        ELSE IF page.status # 0 THEN [status |-> page.status, actual_permissions |-> {}]
        ELSE wrapped(permissions, user.user_id, page.page_id)

\* A lookup that hands out a fresh default page every time.
pages_getitem_fresh(db, page_id) ==
    [p \in DOMAIN db \cup {page_id} |-> IF p = page_id THEN DefaultPage ELSE db[p]]

\* pages[page_id] on the defaultdict: a missing key is inserted with the default page.
pages_getitem(db, page_id) ==
    IF page_id \in DOMAIN db THEN db ELSE db @@ (page_id :> DefaultPage)

\* ------------------------------------------------------------------- Init
\* No request is being resolved.
NoResolution ==
    [raw |-> <<>>, other |-> <<>>, page_path |-> None, other_path |-> None, org_name |-> None]

\* No response has been sent.
NoResponse ==
    [kind |-> "none", token |-> NoToken, page_path |-> <<>>,
     status |-> 0, result |-> "", public |-> None, users |-> {}]

\* No route is rendered.
NoGuard ==
    [route |-> [path |-> "", root |-> "", belongsTo |-> {}], pathname |-> <<>>,
     user |-> NoToken, me |-> [state |-> "idle", pages |-> <<>>],
     admin |-> [state |-> "idle", public |-> None],
     initialised |-> FALSE, isViewer |-> FALSE, isEditor |-> FALSE, isAdmin |-> FALSE,
     raw |-> {}, view |-> "none", navigations |-> 0]

\* No auth provider has been created.
NoProvider ==
    [user |-> None, props |-> None, internalUser |-> None, instances |-> 0,
     calls |-> <<>>, last |-> [op |-> "none", outcome |-> "none"]]

\* No admin dashboard is rendered.
NoDashboard ==
    [mounted |-> FALSE, user |-> NoToken, pathname |-> <<>>, captured |-> None,
     cache |-> {}, orgs |-> {}, switches |-> 0, sent |-> <<>>]

\* No URL is being looked at.
NoUrl ==
    [root |-> "", page_path |-> <<>>, pathname |-> <<>>, pageKey |-> None, reported |-> None]

\* The backend after startup: the root organization with its admins, no page record.
Startup ==
    /\ orgs = {ROOT_ORG_ID}
    /\ persons = [p \in PagePath |-> IF p = ROOT_ORG_ID THEN Users ELSE {}]
    /\ groups = [p \in PagePath |-> [u \in Users |->
                    IF p = ROOT_ORG_ID /\ u \in ADMIN_EMAILS THEN {Admin, Read, Write} ELSE {}]]
    /\ pages = <<>>
    /\ reqs = [r \in Slots |-> NoRequest]
    /\ response = NoResponse
    /\ nreq = 0

Init ==
    /\ Startup
    /\ resolution = NoResolution
    /\ ui = NoGuard
    /\ auth = NoProvider
    /\ dash = NoDashboard
    /\ url = NoUrl

\* ------------------------------------------------------ GET /pages/{path}
\* A get_page that checks the read permission of every page, public or not.
is_public_ignored(content) == FALSE

\* "if not content.public": the flag of the page object just read.
is_public(content) == content.public

get_page(r) ==
    /\ Idle(r)
    /\ \E token \in Tokens, page_path \in PagePath :
        LET rq == Request("get_page", token, page_path, "", NoUpdates)
            person == get_user_id(token)
            page == require_page_id(get_page_id(page_path))
        IN  /\ UNCHANGED platform
            /\ IF person.status # 0
               THEN Answer(rq, person.status, "") /\ UNCHANGED pages
               ELSE IF page.status # 0
               THEN Answer(rq, page.status, "") /\ UNCHANGED pages
               ELSE LET db == pages_getitem(pages, page_path)
                        content == db[page_path]
                    IN  /\ pages' = db
                        /\ IF is_public(content)
                           THEN Answer(rq, HTTP_200_OK, content.contents)
                           ELSE IF person.user_id = None
                           THEN Answer(rq, wrapped({Read}, person.user_id, page.page_id).status, "")
                           ELSE Admit(r, Goto(rq, "permissions"))
    /\ UNCHANGED <<resolution, ui, auth, dash, url>>

\* The platform answers get_permissions for the read check of a non-public page.
get_page_permissions(r) ==
    /\ At(r, "get_page", "permissions")
    /\ LET rq == reqs[r]
           check == wrapped({Read}, Some(rq.token), Some(rq.page_path))
       IN  IF check.status # 0
           THEN Finish(r, rq, check.status, "")
           ELSE Step(r, Goto(rq, "return"))
    /\ UNCHANGED <<platform, pages>>
    /\ UNCHANGED <<resolution, ui, auth, dash, url>>

\* return content.contents: content is the Page object read when the request began.
get_page_return(r) ==
    /\ At(r, "get_page", "return")
    /\ LET rq == reqs[r]
           contents == IF rq.content # None THEN The(rq.content) ELSE pages[rq.page_path].contents
       IN  Finish(r, rq, HTTP_200_OK, contents)
    /\ UNCHANGED <<platform, pages>>
    /\ UNCHANGED <<resolution, ui, auth, dash, url>>

\* ------------------------------------------------------ PUT /pages/{path}
put_page(r) ==
    /\ Idle(r)
    /\ \E token \in Tokens, page_path \in PagePath :
        LET check == require_permissions({Write}, token, page_path) IN
        IF check.status # 0
        THEN Answer(Request("put_page", token, page_path, "", NoUpdates), check.status, "")
        ELSE \E body \in Bodies :
                Admit(r, [Goto(Request("put_page", token, page_path, body, NoUpdates), "body")
                            EXCEPT !.permissions = check.actual_permissions])
    /\ UNCHANGED <<platform, pages>>
    /\ UNCHANGED <<resolution, ui, auth, dash, url>>

\* An overwrite that asks the platform for the caller's groups once more.
put_page_body_rechecks(r) ==
    /\ At(r, "put_page", "body")
    /\ LET rq == reqs[r]
           db == pages_getitem(pages, rq.page_path)
           check == require_permissions({Write}, rq.token, rq.page_path)
       IN  IF check.status # 0
           THEN pages' = db /\ Finish(r, rq, check.status, "")
           ELSE /\ pages' = [db EXCEPT ![rq.page_path].contents = rq.body]
                /\ Finish(r, rq, HTTP_204_NO_CONTENT, "")
    /\ UNCHANGED platform
    /\ UNCHANGED <<resolution, ui, auth, dash, url>>

put_page_body(r) ==
    /\ At(r, "put_page", "body")
    /\ LET rq == reqs[r]
           db == pages_getitem(pages, rq.page_path)
       IN  /\ pages' = [db EXCEPT ![rq.page_path].contents = rq.body]
           /\ Finish(r, rq, HTTP_204_NO_CONTENT, "")
    /\ UNCHANGED platform
    /\ UNCHANGED <<resolution, ui, auth, dash, url>>

\* --------------------------------------------------- DELETE /pages/{path}
\* A delete that reports success.
delete_page_body_success(rq) ==
    /\ Answer(rq, HTTP_204_NO_CONTENT, "")
    /\ UNCHANGED pages

\* A delete that drops the page's record before it answers.
delete_page_body_removes(rq) ==
    /\ Answer(rq, HTTP_501_NOT_IMPLEMENTED, "")
    /\ pages' = [p \in DOMAIN pages \ {rq.page_path} |-> pages[p]]

\* The handler's body: nothing is removed, the answer is 501.
delete_page_body(rq) ==
    /\ Answer(rq, HTTP_501_NOT_IMPLEMENTED, "")
    /\ UNCHANGED pages

delete_page(r) ==
    /\ Idle(r)
    /\ \E token \in Tokens, page_path \in PagePath :
        LET rq == Request("delete_page", token, page_path, "", NoUpdates)
            check == require_permissions({Admin}, token, page_path)
        IN  IF check.status # 0
            THEN Answer(rq, check.status, "") /\ UNCHANGED pages
            ELSE delete_page_body(rq)
    /\ UNCHANGED platform
    /\ UNCHANGED <<resolution, ui, auth, dash, url>>

\* ------------------------------------------------------ updating permissions
\* An update that always goes through persons_put and never removes a person.
set_user_permissions_put(user_id, page_id, permissions) ==
    [persons |-> [persons EXCEPT ![page_id] = @ \cup {user_id}],
     groups |-> [groups EXCEPT ![page_id][user_id] = permissions]]

\* An update that never takes admin from a user who holds it.
set_user_permissions_keeps_admin(user_id, page_id, permissions) ==
    LET kept == permissions \cup (groups[page_id][user_id] \cap {Admin}) IN
    IF page_id # ROOT_ORG_ID /\ kept = {}
    THEN [persons |-> [persons EXCEPT ![page_id] = @ \ {user_id}],
          groups |-> [groups EXCEPT ![page_id][user_id] = {}]]
    ELSE [persons |-> [persons EXCEPT ![page_id] = @ \cup {user_id}],
          groups |-> [groups EXCEPT ![page_id][user_id] = kept]]

\* set_user_permissions: the memberships and groups of the platform after the call.
set_user_permissions(user_id, page_id, permissions) ==
    IF page_id # ROOT_ORG_ID /\ permissions = {}
    THEN [persons |-> [persons EXCEPT ![page_id] = @ \ {user_id}],
          groups |-> [groups EXCEPT ![page_id][user_id] = {}]]
    ELSE [persons |-> [persons EXCEPT ![page_id] = @ \cup {user_id}],
          groups |-> [groups EXCEPT ![page_id][user_id] = permissions]]

\* ----------------------------------------------------- POST /pages/{path}
\* A create that does not look whether the page exists.
page_exists_unchecked(page_id) == FALSE

\* "Ensures the page doesn't exist"
page_exists(page_id) == page_id # None

post_page(r) ==
    /\ Idle(r)
    /\ \E token \in Tokens, page_path \in PagePath :
        LET rq == Request("post_page", token, page_path, "", NoUpdates)
            person == require_user_id(token)
            page_id == get_page_id(page_path)
        IN  IF person.status # 0
            THEN Answer(rq, person.status, "")
            ELSE IF page_exists(page_id)
            THEN Answer(rq, HTTP_409_CONFLICT, "")
            ELSE \E body \in Bodies : Admit(r, [Goto(rq, "parent") EXCEPT !.body = body])
    /\ UNCHANGED <<platform, pages>>
    /\ UNCHANGED <<resolution, ui, auth, dash, url>>

\* A create that checks the root page instead of the parent.
parent_of_root(page_path) == <<>>

\* page_path[:-1]
parent_of(page_path) == SubSeq(page_path, 1, Len(page_path) - 1)

\* A create that looks at the caller's groups on the parent before it looks
\* for the parent.
post_page_parent_forbidden_first(r) ==
    /\ At(r, "post_page", "parent")
    /\ LET rq == reqs[r]
           parent_page_path == parent_of(rq.page_path)
           parent == require_page_id(get_page_id(parent_page_path))
           actual_permissions == get_permissions(Some(rq.token), Some(parent_page_path))
       IN  IF Admin \notin actual_permissions
           THEN Finish(r, rq, HTTP_403_FORBIDDEN, "")
           ELSE IF parent.status # 0
           THEN Finish(r, rq, parent.status, "")
           ELSE Step(r, [Goto(rq, "suborg") EXCEPT !.permissions = actual_permissions])
    /\ UNCHANGED <<platform, pages>>
    /\ UNCHANGED <<resolution, ui, auth, dash, url>>

\* The parent must exist and the user must hold admin on it.
post_page_parent(r) ==
    /\ At(r, "post_page", "parent")
    /\ LET rq == reqs[r]
           parent_page_path == parent_of(rq.page_path)
           parent == require_page_id(get_page_id(parent_page_path))
           check == wrapped({Admin}, Some(rq.token), parent.page_id)
       IN  IF parent.status # 0
           THEN Finish(r, rq, parent.status, "")
           ELSE IF check.status # 0
           THEN Finish(r, rq, check.status, "")
           ELSE Step(r, [Goto(rq, "suborg") EXCEPT !.permissions = check.actual_permissions])
    /\ UNCHANGED <<platform, pages>>
    /\ UNCHANGED <<resolution, ui, auth, dash, url>>

\* organizations_suborganizations_post: the platform creates the suborganization,
\* or answers with an error (always so when the name is taken).
post_page_suborg(r) ==
    /\ At(r, "post_page", "suborg")
    /\ LET rq == reqs[r] IN
        \/ /\ rq.page_path \notin orgs
           /\ orgs' = orgs \cup {rq.page_path}
           /\ Step(r, Goto(rq, "permissions"))
        \/ /\ UNCHANGED orgs
           /\ Finish(r, rq, HTTP_500_INTERNAL_SERVER_ERROR, "")
    /\ UNCHANGED <<persons, groups, pages>>
    /\ UNCHANGED <<resolution, ui, auth, dash, url>>

\* A create that makes the creating user admin of the new page and nothing else.
creator_permissions_admin_only(parent_page_permissions) == {Admin}

\* permissions=parent_page_permissions
creator_permissions(parent_page_permissions) == parent_page_permissions

\* A create that takes the suborganization back when the permissions cannot
\* be set.
post_page_permissions_undo(r) ==
    /\ At(r, "post_page", "permissions")
    /\ LET rq == reqs[r]
           after == set_user_permissions(rq.token, rq.page_path,
                                         creator_permissions(rq.permissions))
       IN
        \/ /\ persons' = after.persons
           /\ groups' = after.groups
           /\ UNCHANGED orgs
           /\ Step(r, Goto(rq, "store"))
        \/ /\ UNCHANGED <<persons, groups>>
           /\ orgs' = orgs \ {rq.page_path}
           /\ Finish(r, rq, HTTP_500_INTERNAL_SERVER_ERROR, "")
    /\ UNCHANGED pages
    /\ UNCHANGED <<resolution, ui, auth, dash, url>>

\* set_user_permissions(person_id, page_id, parent_page_permissions)
post_page_permissions(r) ==
    /\ At(r, "post_page", "permissions")
    /\ LET rq == reqs[r]
           after == set_user_permissions(rq.token, rq.page_path,
                                         creator_permissions(rq.permissions))
       IN
        \/ /\ persons' = after.persons
           /\ groups' = after.groups
           /\ Step(r, Goto(rq, "store"))
        \/ /\ UNCHANGED <<persons, groups>>
           /\ Finish(r, rq, HTTP_500_INTERNAL_SERVER_ERROR, "")
    /\ UNCHANGED <<orgs, pages>>
    /\ UNCHANGED <<resolution, ui, auth, dash, url>>

\* A new page that starts non-public whatever the parent is.
new_page_default(db, parent_page_id, body) == Page(FALSE, body)

\* Page(public=pages[parent_page_id].public, contents=body)
new_page(db, parent_page_id, body) == Page(db[parent_page_id].public, body)

\* pages[page_id] = Page(...) after the permissions are set.  A
\* get_page that still holds the replaced Page object returns that object's contents.
post_page_store(r) ==
    /\ At(r, "post_page", "store")
    /\ LET rq == reqs[r]
           page_id == rq.page_path
           db == pages_getitem(pages, parent_of(page_id))
           holds(q) == /\ q # r
                       /\ reqs[q].kind = "get_page"
                       /\ reqs[q].page_path = page_id
                       /\ reqs[q].content = None
       IN  /\ pages' = [p \in DOMAIN db \cup {page_id} |->
                          IF p = page_id THEN new_page(db, parent_of(page_id), rq.body)
                          ELSE db[p]]
           /\ reqs' = [q \in Slots |->
                          IF q = r THEN NoRequest
                          ELSE IF holds(q) THEN [reqs[q] EXCEPT !.content = Some(pages[page_id].contents)]
                          ELSE reqs[q]]
           /\ response' = Response(rq, HTTP_204_NO_CONTENT, "")
           /\ UNCHANGED nreq
    /\ UNCHANGED platform
    /\ UNCHANGED <<resolution, ui, auth, dash, url>>

\* ------------------------------------------------------ GET /admin/{path}
get_page_settings(r) ==
    /\ Idle(r)
    /\ \E token \in Tokens, page_path \in PagePath :
        LET rq == Request("get_page_settings", token, page_path, "", NoUpdates)
            check == require_permissions({Admin}, token, page_path)
        IN  IF check.status # 0
            THEN Answer(rq, check.status, "")
            ELSE Admit(r, Goto(rq, "persons"))
    /\ UNCHANGED <<platform, pages>>
    /\ UNCHANGED <<resolution, ui, auth, dash, url>>

\* persons_get: the members of the page's organization.
get_page_settings_persons(r) ==
    /\ At(r, "get_page_settings", "persons")
    /\ Step(r, [Goto(reqs[r], "public") EXCEPT !.pending = persons[reqs[r].page_path]])
    /\ UNCHANGED <<platform, pages>>
    /\ UNCHANGED <<resolution, ui, auth, dash, url>>

\* public=pages[page_id].public is read before the fan-out is awaited.
get_page_settings_public(r) ==
    /\ At(r, "get_page_settings", "public")
    /\ LET rq == reqs[r]
           db == pages_getitem(pages, rq.page_path)
           seen == [rq EXCEPT !.public = Some(db[rq.page_path].public)]
       IN  /\ pages' = db
           /\ IF rq.pending = {}
              THEN Finish(r, seen, HTTP_200_OK, "")
              ELSE Step(r, Goto(seen, "gather"))
    /\ UNCHANGED platform
    /\ UNCHANGED <<resolution, ui, auth, dash, url>>

\* A view that lists every member, with or without groups.
user_permissions_unfiltered(user_id, person_groups) ==
    Some([user |-> user_id, permissions |-> person_groups])

\* What get_user_permissions returns: None for a member without groups.
user_permissions(user_id, person_groups) ==
    IF person_groups = {} THEN None
    ELSE Some([user |-> user_id, permissions |-> person_groups])

\* A gather that leaves out the member whose fetch failed and goes on.
gather_failed_skips(rq, user_id) ==
    [status |-> 0, rq |-> [rq EXCEPT !.pending = @ \ {user_id}]]

\* await asyncio.gather(...): the first exception of a fetch is raised in the
\* handler, so no PageSettings is built and the answer is an error.
gather_failed(rq, user_id) ==
    [status |-> HTTP_500_INTERNAL_SERVER_ERROR,
     rq |-> [rq EXCEPT !.pending = {}, !.users = {}, !.public = None]]

\* get_user_permissions(person.person_id), one member at a time, in any order;
\* the fetch of a member's groups succeeds or fails.
get_user_permissions(r) ==
    /\ At(r, "get_page_settings", "gather")
    /\ \E user_id \in reqs[r].pending :
        LET rq == reqs[r]
            person_groups == groups[rq.page_path][user_id]
            rest == [rq EXCEPT !.pending = @ \ {user_id},
                               !.users = @ \cup user_permissions(user_id, person_groups)]
            failed == gather_failed(rq, user_id)
        IN  \/ IF rest.pending = {}
               THEN Finish(r, rest, HTTP_200_OK, "")
               ELSE Step(r, rest)
            \/ IF failed.status # 0
               THEN Finish(r, failed.rq, failed.status, "")
               ELSE IF failed.rq.pending = {}
               THEN Finish(r, failed.rq, HTTP_200_OK, "")
               ELSE Step(r, failed.rq)
    /\ UNCHANGED <<platform, pages>>
    /\ UNCHANGED <<resolution, ui, auth, dash, url>>

\* ---------------------------------------------------- PATCH /admin/{path}
patch_page_settings(r) ==
    /\ Idle(r)
    /\ \E token \in Tokens, page_path \in PagePath :
        LET rq == Request("patch_page_settings", token, page_path, "", NoUpdates)
            check == require_permissions({Admin}, token, page_path)
        IN  IF check.status # 0
            THEN Answer(rq, check.status, "")
            ELSE \E updates \in PageSettingsPatch :
                    Admit(r, [Goto(rq, "body") EXCEPT !.updates = updates])
    /\ UNCHANGED <<platform, pages>>
    /\ UNCHANGED <<resolution, ui, auth, dash, url>>

\* A patch that reads an absent public flag as false.
set_public_absent_false(updates, page_id) ==
    [pages_getitem(pages, page_id) EXCEPT ![page_id].public = (updates.public = Some(TRUE))]

\* if updates.public is not None: pages[page_id].public = updates.public
set_public(updates, page_id) ==
    IF updates.public # None
    THEN [pages_getitem(pages, page_id) EXCEPT ![page_id].public = The(updates.public)]
    ELSE pages

\* The public flag is overwritten, then the permission updates are started.
patch_page_settings_body(r) ==
    /\ At(r, "patch_page_settings", "body")
    /\ LET rq == reqs[r]
           updates == rq.updates
           tasks == IF updates.users = None THEN {}
                    ELSE {i \in DOMAIN The(updates.users) : The(updates.users)[i].permissions # None}
       IN  /\ pages' = set_public(updates, rq.page_path)
           /\ IF tasks = {}
              THEN Finish(r, rq, HTTP_204_NO_CONTENT, "")
              ELSE Step(r, [Goto(rq, "gather") EXCEPT !.pending = tasks])
    /\ UNCHANGED platform
    /\ UNCHANGED <<resolution, ui, auth, dash, url>>

\* A patch that takes back the public flag it wrote when an update fails.
after_failure_rollback(rq) ==
    [persons |-> persons, groups |-> groups,
     pages |-> IF rq.updates.public # None
               THEN [pages EXCEPT ![rq.page_path].public = ~The(rq.updates.public)]
               ELSE pages]

\* The exception of a task leaves the gather; nothing that was written is undone.
after_failure(rq) == [persons |-> persons, groups |-> groups, pages |-> pages]

\* One set_user_permissions task of the gather completes, or fails; the first
\* failure is the request's response while the other tasks go on.
patch_user_permissions(r) ==
    /\ At(r, "patch_page_settings", "gather")
    /\ \E i \in reqs[r].pending :
        LET rq == reqs[r]
            user == The(rq.updates.users)[i]
            after == set_user_permissions(user.id, rq.page_path, The(user.permissions))
            failed == after_failure(rq)
            rest == [rq EXCEPT !.pending = @ \ {i}]
        IN
            \/ /\ persons' = after.persons
               /\ groups' = after.groups
               /\ UNCHANGED pages
               /\ IF rest.pending # {} THEN Step(r, rest)
                  ELSE IF rest.status # 0 THEN Step(r, NoRequest)
                  ELSE Finish(r, rest, HTTP_204_NO_CONTENT, "")
            \/ /\ persons' = failed.persons
               /\ groups' = failed.groups
               /\ pages' = failed.pages
               /\ IF rest.status # 0
                  THEN Step(r, IF rest.pending # {} THEN rest ELSE NoRequest)
                  ELSE /\ reqs' = [reqs EXCEPT ![r] =
                                IF rest.pending # {}
                                THEN [rest EXCEPT !.status = HTTP_500_INTERNAL_SERVER_ERROR]
                                ELSE NoRequest]
                       /\ response' = Response(rq, HTTP_500_INTERNAL_SERVER_ERROR, "")
                       /\ UNCHANGED nreq
    /\ UNCHANGED orgs
    /\ UNCHANGED <<resolution, ui, auth, dash, url>>

\* ------------------------------------------------------------------- Next
Next ==
    \E r \in Slots :
        \/ get_page(r)
        \/ get_page_permissions(r)
        \/ get_page_return(r)
        \/ put_page(r)
        \/ put_page_body(r)
        \/ delete_page(r)
        \/ post_page(r)
        \/ post_page_parent(r)
        \/ post_page_suborg(r)
        \/ post_page_permissions(r)
        \/ post_page_store(r)
        \/ get_page_settings(r)
        \/ get_page_settings_persons(r)
        \/ get_page_settings_public(r)
        \/ get_user_permissions(r)
        \/ patch_page_settings(r)
        \/ patch_page_settings_body(r)
        \/ patch_user_permissions(r)

Spec == Init /\ [][Next]_vars

\* ------------------------------------------------- from raw path to organization
\* A raw path is a string, taken as the sequence of its characters.
ROOT_ORG_NAME == "MyOrg"
Chars == {"/", "a", "b"}
RawPaths == UNION {[1..n -> Chars] : n \in 0..MaxRawLen}

\* The raw paths that have one more slash than s at the front, at the end or
\* next to a slash of s.
InsertAt(s, i, c) == SubSeq(s, 1, i) \o <<c>> \o SubSeq(s, i + 1, Len(s))
SlashVariants(s) ==
    {InsertAt(s, i, "/") :
        i \in {j \in 0..Len(s) : j = 0 \/ j = Len(s) \/ s[j] = "/" \/ s[j + 1] = "/"}}

\* The string of a sequence of characters.
RECURSIVE str(_)
str(cs) == IF cs = <<>> THEN "" ELSE Head(cs) \o str(Tail(cs))

\* s.split(sep): the pieces between the separators, empty pieces included.
RECURSIVE split(_, _)
split(s, sep) ==
    IF \A i \in 1..Len(s) : s[i] # sep THEN <<str(s)>>
    ELSE LET i == CHOOSE k \in 1..Len(s) : s[k] = sep /\ \A j \in 1..(k - 1) : s[j] # sep
         IN  <<str(SubSeq(s, 1, i - 1))>> \o split(SubSeq(s, i + 1, Len(s)), sep)

\* A resolution that keeps the empty pieces.
get_page_path_unfiltered(page_path) == split(page_path, "/")

\* [x for x in page_path.split("/") if x]
get_page_path(page_path) == SelectSeq(split(page_path, "/"), LAMBDA x : x # "")

\* sep.join(xs)
RECURSIVE join(_, _)
join(sep, xs) ==
    IF xs = <<>> THEN ""
    ELSE IF Len(xs) = 1 THEN xs[1]
    ELSE xs[1] \o sep \o join(sep, Tail(xs))

\* A name that always puts a slash after the root's name.
org_name_slash(page_path) == ROOT_ORG_NAME \o "/" \o join("/", page_path)

\* "/".join([slashid.ROOT_ORG_NAME] + page_path)
org_name_of(page_path) == join("/", <<ROOT_ORG_NAME>> \o page_path)

backend == <<orgs, persons, groups, pages, reqs, response, nreq>>

PathInit ==
    /\ Startup
    /\ ui = NoGuard
    /\ auth = NoProvider
    /\ dash = NoDashboard
    /\ url = NoUrl
    /\ \E raw \in RawPaths : \E other \in SlashVariants(raw) :
        resolution = [NoResolution EXCEPT !.raw = raw, !.other = other]

\* FastAPI resolves get_page_path for the raw path of the request.
resolve_page_path ==
    /\ resolution.page_path = None
    /\ resolution' = [resolution EXCEPT
                        !.page_path = Some(get_page_path(resolution.raw)),
                        !.other_path = Some(get_page_path(resolution.other))]
    /\ UNCHANGED <<backend, ui, auth, dash, url>>

\* get_page_id builds the name of the organization from the page path.
resolve_org_name ==
    /\ resolution.page_path # None
    /\ resolution.org_name = None
    /\ resolution' = [resolution EXCEPT !.org_name = Some(org_name_of(The(resolution.page_path)))]
    /\ UNCHANGED <<backend, ui, auth, dash, url>>

PathNext == resolve_page_path \/ resolve_org_name

PathSpec == PathInit /\ [][PathNext]_vars

\* ------------------------------------------------------ frontend route guard
\* A URL path is the sequence of its slashes and of the words between them.
\* The routes of app.tsx that are wrapped in <Groups>.
Routes ==
    {[path |-> "", root |-> "", belongsTo |-> {Read}],
     [path |-> "new", root |-> "admin", belongsTo |-> {Admin}],
     [path |-> "edit", root |-> "admin", belongsTo |-> {Write}],
     [path |-> "page", root |-> "page", belongsTo |-> {Read}],
     [path |-> "admin", root |-> "admin", belongsTo |-> {Admin}]}

\* The pages of the backend while the guard is rendered, the signed-in user and
\* the groups the user may hold on a page.
GuardPages == {<<>>, <<"a">>, <<"a", "page">>}
GuardUser == "u2"
GuardPermissionSets == {{}, {Read}, {Admin}}

\* The elements of a page path with a slash between them.
RECURSIVE slashed(_)
slashed(page_path) ==
    IF page_path = <<>> THEN <<>>
    ELSE IF Len(page_path) = 1 THEN <<page_path[1]>>
    ELSE <<page_path[1], "/">> \o slashed(Tail(page_path))

\* The URLs of a route: "/" for the index, /{route}/{page_path} with or without
\* a slash at the end for the others.
Pathnames(route) ==
    IF route.path = "" THEN {<<"/">>}
    ELSE {<<"/", route.path, "/">> \o slashed(p) \o tail :
            p \in GuardPages \ {<<>>}, tail \in {<<>>, <<"/">>}}

\* String.prototype.split with a separator that is not empty.
RECURSIVE js_split(_, _)
js_split(s, sep) ==
    LET at(i) == i + Len(sep) - 1 <= Len(s) /\ SubSeq(s, i, i + Len(sep) - 1) = sep IN
    IF \A i \in 1..Len(s) : ~at(i) THEN <<s>>
    ELSE LET i == CHOOSE k \in 1..Len(s) : at(k) /\ \A j \in 1..(k - 1) : ~at(j)
         IN  <<SubSeq(s, 1, i - 1)>> \o js_split(SubSeq(s, i + Len(sep), Len(s)), sep)

\* String.prototype.replace with a string pattern: the first occurrence only.
js_replace(s, pattern, by) ==
    LET at(i) == i + Len(pattern) - 1 <= Len(s) /\ SubSeq(s, i, i + Len(pattern) - 1) = pattern IN
    IF \A i \in 1..Len(s) : ~at(i) THEN s
    ELSE LET i == CHOOSE k \in 1..Len(s) : at(k) /\ \A j \in 1..(k - 1) : ~at(j)
         IN  SubSeq(s, 1, i - 1) \o by \o SubSeq(s, i + Len(pattern), Len(s))

usePageId(pathname, root) ==
    LET parts == js_split(pathname, <<"/", root, "/">>)
        pageId == IF Len(parts) >= 2 THEN parts[2] ELSE <<>>
        pageKey == js_replace(<<"/">> \o (IF pageId # <<>> THEN pageId \o <<"/">> ELSE <<>>),
                              <<"/", "/">>, <<"/">>)
    IN  [pageId |-> pageId, pageKey |-> pageKey]

\* GET /users/me: the name of every page the user belongs to and holds groups
\* on, without the root organization's name and with a slash at the end, mapped
\* to those groups.
page_name(page_path) ==
    (IF page_path = <<>> THEN <<>> ELSE <<"/">> \o slashed(page_path)) \o <<"/">>
get_user_me(user_id) ==
    LET person_orgs == {p \in orgs : user_id \in persons[p] /\ groups[p][user_id] # {}} IN
    [key \in {page_name(p) : p \in person_orgs} |->
        groups[CHOOSE p \in person_orgs : page_name(p) = key][user_id]]

\* dataProvider.getOne("admin", {id}): whatever the backend answers is parsed and
\* handed on as data; only the view of an admin has a public field.
getOne_admin(user_id, id) ==
    LET page_path == get_page_path(id)
        check == require_permissions({Admin}, user_id, page_path)
    IN  IF check.status = 0
        THEN [state |-> "success", public |-> Some(pages_getitem(pages, page_path)[page_path].public)]
        ELSE [state |-> "success", public |-> None]

\* The state setters of useGroups, called with the groups of a page.
setGroups(g, held) ==
    [g EXCEPT !.isViewer = Read \in held, !.isEditor = Write \in held,
              !.isAdmin = Admin \in held, !.raw = held]

\* A hook that computes the flags in every render that has the user.
useGroups_every_render(g) ==
    LET pageKey == usePageId(g.pathname, g.route.root).pageKey IN
    IF g.me.state # "success" THEN g
    ELSE [setGroups(g, IF pageKey \in DOMAIN g.me.pages THEN g.me.pages[pageKey] ELSE {})
            EXCEPT !.initialised = TRUE]

\* useGroups: the flags are set once, in the first render that has the user.
useGroups(g) ==
    LET pageKey == usePageId(g.pathname, g.route.root).pageKey
        initReady == g.me.state = "success" /\ ~g.initialised
    IN  IF ~initReady THEN g
        ELSE [(IF pageKey \in DOMAIN g.me.pages THEN setGroups(g, g.me.pages[pageKey]) ELSE g)
                EXCEPT !.initialised = TRUE]

AssertGroups(g) ==
    IF g.me.state = "loading" \/ g.admin.state = "loading" THEN "loading"
    ELSE IF g.me.state = "error" \/ g.admin.state = "error" THEN "oops"
    ELSE IF g.admin.public = Some(TRUE) THEN "children"
    ELSE IF \E permission \in g.route.belongsTo : permission \notin g.raw THEN "fallback"
    ELSE "children"

\* One render of the guard: the hooks run, then the component returns.
Render(g) == LET h == useGroups(g) IN [h EXCEPT !.view = AssertGroups(h)]

\* Page changes of one mounted instance.
MaxNavigations == 1

GuardInit ==
    /\ resolution = NoResolution
    /\ auth = NoProvider
    /\ dash = NoDashboard
    /\ url = NoUrl
    /\ reqs = [r \in Slots |-> NoRequest]
    /\ response = NoResponse
    /\ nreq = 0
    /\ orgs = GuardPages
    /\ \E held \in [GuardPages -> GuardPermissionSets], public \in [GuardPages -> BOOLEAN] :
        /\ groups = [p \in GuardPages |-> [u \in Users |->
                        IF u = GuardUser THEN held[p]
                        ELSE IF u \in ADMIN_EMAILS THEN {Admin, Read, Write} ELSE {}]]
        /\ persons = [p \in GuardPages |->
                        IF p = ROOT_ORG_ID THEN Users
                        ELSE {u \in Users : u \in ADMIN_EMAILS \/ held[p] # {}}]
        /\ pages = [p \in GuardPages |-> Page(public[p], "default content")]
    /\ \E route \in Routes : \E pathname \in Pathnames(route) :
        ui = Render([NoGuard EXCEPT !.route = route, !.pathname = pathname,
                                     !.user = GuardUser,
                                     !.me = [state |-> "loading", pages |-> <<>>],
                                     !.admin = [state |-> "loading", public |-> None]])

\* The answer to GET /users/me arrives, or the request fails.
users_me_resolved ==
    /\ ui.me.state = "loading"
    /\ \/ ui' = Render([ui EXCEPT !.me = [state |-> "success", pages |-> get_user_me(ui.user)]])
       \/ ui' = Render([ui EXCEPT !.me = [state |-> "error", pages |-> <<>>]])
    /\ UNCHANGED <<backend, resolution, auth, dash, url>>

\* The answer to GET /admin/{pageId} arrives, or the request fails.
admin_resolved ==
    /\ ui.admin.state = "loading"
    /\ LET pageId == usePageId(ui.pathname, ui.route.root).pageId IN
        \/ /\ ui' = Render([ui EXCEPT !.admin = getOne_admin(ui.user, pageId)])
           /\ pages' = IF require_permissions({Admin}, ui.user, get_page_path(pageId)).status = 0
                       THEN pages_getitem(pages, get_page_path(pageId))
                       ELSE pages
        \/ /\ ui' = Render([ui EXCEPT !.admin = [state |-> "error", public |-> None]])
           /\ UNCHANGED pages
    /\ UNCHANGED <<orgs, persons, groups, reqs, response, nreq, resolution, auth, dash, url>>

\* The URL changes to another page of the same route and the instance stays
\* mounted: the admin data of the new page is fetched, the hook state is kept.
navigate ==
    /\ ui.navigations < MaxNavigations
    /\ \E pathname \in Pathnames(ui.route) \ {ui.pathname} :
        ui' = Render([ui EXCEPT !.pathname = pathname,
                                !.admin = [state |-> "loading", public |-> None],
                                !.navigations = @ + 1])
    /\ UNCHANGED <<backend, resolution, auth, dash, url>>

GuardNext == users_me_resolved \/ admin_resolved \/ navigate

GuardSpec == GuardInit /\ [][GuardNext]_vars

\* ------------------------------------------------------------ auth provider
\* Provider instances created and calls of login and logout on one instance.
MaxProviders == 2
MaxCalls == 2

\* The statuses an http error handed to checkError carries.
ErrorStatuses ==
    {HTTP_401_UNAUTHORIZED, HTTP_403_FORBIDDEN, HTTP_404_NOT_FOUND,
     HTTP_500_INTERNAL_SERVER_ERROR}

Called(op, outcome) == [op |-> op, outcome |-> outcome]

\* createAuthProvider({logOut, user}): a new instance that stores the user of the
\* render that creates it.
createAuthProvider(a) ==
    [a EXCEPT !.props = a.user, !.internalUser = a.user, !.instances = @ + 1,
              !.calls = <<>>, !.last = Called("createAuthProvider", "returned")]

\* login(newUser), called by the form once SlashID has authenticated newUser.
login(a, newUser) ==
    [a EXCEPT !.user = Some(newUser), !.internalUser = Some(newUser),
              !.calls = Append(@, "login"), !.last = Called("login", "resolved")]

\* logout(): logOut() of @slashid/react ends the session.
logout(a) ==
    [a EXCEPT !.user = None,
              !.calls = Append(@, "logout"), !.last = Called("logout", "resolved")]

\* checkAuth(): a truthy check of internalUser.
checkAuth(a) ==
    [a EXCEPT !.last = Called("checkAuth",
                              IF a.internalUser # None THEN "resolved" ELSE "rejected")]

\* checkError(error); the app never stores the "username" item it removes.
checkError(a, status) ==
    [a EXCEPT !.last = Called("checkError",
                              IF status \in {HTTP_401_UNAUTHORIZED, HTTP_403_FORBIDDEN}
                              THEN "rejected" ELSE "resolved")]

\* getIdentity(): GET /users/me with the token of the user the instance was
\* created with ("Bearer undefined" without one); an answer without a user
\* makes data.user.id throw.
getIdentity(a) ==
    [a EXCEPT !.last = Called("getIdentity",
                              IF require_user_id(IF a.props = None THEN BadToken
                                                 ELSE The(a.props)).status = 0
                              THEN "resolved" ELSE "rejected")]

\* getPermissions()
getPermissions(a) == [a EXCEPT !.last = Called("getPermissions", "resolved")]

\* The first render of CMS: SlashID may have restored a session from its token
\* storage.
AuthInit ==
    /\ Startup
    /\ resolution = NoResolution
    /\ ui = NoGuard
    /\ dash = NoDashboard
    /\ url = NoUrl
    /\ \E user \in {None} \cup {Some(u) : u \in Users} :
        auth = createAuthProvider([NoProvider EXCEPT !.user = user])

Frame == UNCHANGED <<backend, resolution, ui, dash, url>>

\* CMS renders again with another user: useMemo creates a new instance.
auth_create ==
    /\ auth.props # auth.user
    /\ auth.instances < MaxProviders
    /\ auth' = createAuthProvider(auth)
    /\ Frame

auth_login ==
    /\ auth.user = None
    /\ Len(auth.calls) < MaxCalls
    /\ \E newUser \in Users : auth' = login(auth, newUser)
    /\ Frame

auth_logout ==
    /\ Len(auth.calls) < MaxCalls
    /\ auth' = logout(auth)
    /\ Frame

auth_checkAuth == auth' = checkAuth(auth) /\ Frame

auth_checkError == (\E status \in ErrorStatuses : auth' = checkError(auth, status)) /\ Frame

auth_getIdentity == auth' = getIdentity(auth) /\ Frame

auth_getPermissions == auth' = getPermissions(auth) /\ Frame

AuthNext ==
    \/ auth_create
    \/ auth_login
    \/ auth_logout
    \/ auth_checkAuth
    \/ auth_checkError
    \/ auth_getIdentity
    \/ auth_getPermissions

AuthSpec == AuthInit /\ [][AuthNext]_vars

\* ---------------------------------------------------------- admin dashboard
\* Switches of the dashboard to another page and PATCH requests it sends.
MaxSwitches == 3
MaxPatches == 1

\* The pages of the backend while the dashboard is open and the signed-in user,
\* who is admin of the pages under the root; the user of ADMIN_EMAILS holds
\* every group on the root page and every group or none on the others.
DashPages == {<<>>, <<"a">>, <<"b">>}
DashUser == "u2"

\* usePageId({root: "admin"}) in AdminPage.
dashPageId(d) == usePageId(d.pathname, "admin").pageId
dashPageKey(d) == usePageId(d.pathname, "admin").pageKey

\* useOrgList({withPermission: "admin"}): the keys of /users/me with admin.
useOrgList(user_id, withPermission) ==
    LET me == get_user_me(user_id) IN {key \in DOMAIN me : withPermission \in me[key]}

\* The rows of the grid: the users of the admin data of the page shown.
rows(d) ==
    LET page == get_page_path(dashPageId(d)) IN
    IF page \in orgs /\ Admin \in groups[page][d.user]
    THEN {u \in persons[page] : groups[page][u] # {}}
    ELSE {}

\* The first render of an AdminPage instance, once the guard has the admin data
\* of the page: the hooks take their first values.
mount(d) ==
    [d EXCEPT !.mounted = TRUE,
              !.captured = Some(dashPageId(d)),
              !.cache = @ \cup {dashPageId(d)},
              !.orgs = useOrgList(d.user, Admin)]

\* PATCH /admin/{id} with one entry or a flag, as the backend handles it when no
\* other request is in flight, and the same with the platform call failing.
patch_admin(user_id, id, updates) ==
    LET page_path == get_page_path(id)
        check == require_permissions({Admin}, user_id, page_path)
    IN  IF check.status # 0
        THEN [status |-> check.status, persons |-> persons, groups |-> groups, pages |-> pages]
        ELSE IF updates.users = None
        THEN [status |-> HTTP_204_NO_CONTENT, persons |-> persons, groups |-> groups,
              pages |-> set_public(updates, page_path)]
        ELSE LET entry == The(updates.users)[1]
                 after == set_user_permissions(entry.id, page_path, The(entry.permissions))
             IN  [status |-> HTTP_204_NO_CONTENT, persons |-> after.persons,
                  groups |-> after.groups, pages |-> set_public(updates, page_path)]
patch_admin_failed(user_id, id, updates) ==
    LET page_path == get_page_path(id)
        check == require_permissions({Admin}, user_id, page_path)
    IN  [status |-> IF check.status # 0 THEN check.status ELSE HTTP_500_INTERNAL_SERVER_ERROR,
         persons |-> persons, groups |-> groups,
         pages |-> IF check.status # 0 THEN pages ELSE set_public(updates, page_path)]

\* A callback that sends to the page the dashboard shows.
saveUserDataChange_current(d) == dashPageId(d)

\* saveUserDataChange is memoised with no dependencies: its upsertPageSettings
\* is the one of the first render, with the pageId of that render.
saveUserDataChange(d) == The(d.captured)

\* upsertPageSettings of the current render.
upsertPageSettings(d) == dashPageId(d)

UserEntry(user_id, permissions) ==
    [public |-> None, users |-> Some(<<[id |-> user_id, permissions |-> Some(permissions)]>>)]

\* dataProvider.update("admin", {id, ...}) is sent and answered.
Send(by, id, updates) ==
    /\ dash.mounted
    /\ Len(dash.sent) < MaxPatches
    /\ \E result \in {patch_admin(dash.user, id, updates),
                      patch_admin_failed(dash.user, id, updates)} :
        /\ persons' = result.persons
        /\ groups' = result.groups
        /\ pages' = result.pages
        /\ dash' = [dash EXCEPT !.sent = Append(@, [by |-> by, id |-> id, data |-> updates,
                                                    status |-> result.status])]
    /\ UNCHANGED <<orgs, reqs, response, nreq, resolution, ui, auth, url>>

DashInit ==
    /\ resolution = NoResolution
    /\ url = NoUrl
    /\ ui = NoGuard
    /\ auth = NoProvider
    /\ reqs = [r \in Slots |-> NoRequest]
    /\ response = NoResponse
    /\ nreq = 0
    /\ orgs = DashPages
    /\ \E held \in [DashPages \ {ROOT_ORG_ID} -> {{}, {Admin, Read, Write}}] :
        /\ groups = [p \in DashPages |-> [u \in Users |->
                        IF u \in ADMIN_EMAILS
                        THEN (IF p = ROOT_ORG_ID THEN {Admin, Read, Write} ELSE held[p])
                        ELSE IF p = ROOT_ORG_ID THEN {} ELSE {Admin}]]
        /\ persons = [p \in DashPages |->
                        IF p = ROOT_ORG_ID THEN Users
                        ELSE {u \in Users : u \notin ADMIN_EMAILS \/ held[p] # {}}]
    /\ pages = [p \in DashPages |-> DefaultPage]
    /\ \E p \in DashPages \ {ROOT_ORG_ID}, tail \in {<<>>, <<"/">>} :
        dash = mount([NoDashboard EXCEPT !.user = DashUser,
                                         !.pathname = <<"/", "admin", "/">> \o slashed(p) \o tail])

\* OrgSwitcher: another page is selected and onSelect redirects to /admin{org}.
\* With the admin data of that page in the query cache the guard keeps
\* rendering its children; without, it renders Loading and AdminPage unmounts.
dash_switch ==
    /\ dash.mounted
    /\ dash.switches < MaxSwitches
    /\ \E org \in dash.orgs \ {<<"/">>, dashPageKey(dash)} :
        LET to == [dash EXCEPT !.pathname = <<"/", "admin">> \o org, !.switches = @ + 1] IN
        dash' = IF dashPageId(to) \in dash.cache THEN to
                ELSE [to EXCEPT !.mounted = FALSE, !.captured = None]
    /\ UNCHANGED <<backend, resolution, ui, auth, url>>

\* The admin data of the page arrives: the guard renders a new AdminPage.
dash_loaded ==
    /\ ~dash.mounted
    /\ dash' = mount(dash)
    /\ pages' = IF require_permissions({Admin}, dash.user, get_page_path(dashPageId(dash))).status = 0
                THEN pages_getitem(pages, get_page_path(dashPageId(dash)))
                ELSE pages
    /\ UNCHANGED <<orgs, persons, groups, reqs, response, nreq, resolution, ui, auth, url>>

\* processRowUpdate of the grid: the groups of a row are edited and saved.
dash_save ==
    \E u \in rows(dash), permissions \in PermissionSets :
        Send("saveUserDataChange", saveUserDataChange(dash), UserEntry(u, permissions))

\* The delete button of a row.
dash_remove ==
    \E u \in rows(dash) : Send("onClick", upsertPageSettings(dash), UserEntry(u, {}))

\* A user picked in the autocomplete and not in the grid is added with read.
dash_add ==
    \E u \in Users \ rows(dash) : Send("autocomplete", upsertPageSettings(dash), UserEntry(u, {Read}))

\* The Public checkbox.
dash_public ==
    /\ dash.mounted
    /\ \E isPublic \in BOOLEAN :
        Send("updatePublicSetting", upsertPageSettings(dash),
             [public |-> Some(isPublic), users |-> None])

DashNext ==
    \/ dash_switch
    \/ dash_loaded
    \/ dash_save
    \/ dash_remove
    \/ dash_add
    \/ dash_public

DashSpec == DashInit /\ [][DashNext]_vars

\* ------------------------------------------------- from URL to the page's key
\* Elements of a page path in a URL.
MaxSegments == 2

\* The roots of the routes that carry a page path, and the words a path is made of.
Roots == {"page", "admin"}
Words == {"a", "page", "admin"}
KeyPaths == UNION {[1..n -> Words] : n \in 0..MaxSegments}

\* /{root}/s1/.../sn, with or without a slash at the end.
Pathname(root, page_path, slash) ==
    <<"/", root>> \o (IF page_path = <<>> THEN <<>> ELSE <<"/">> \o slashed(page_path))
                  \o (IF slash THEN <<"/">> ELSE <<>>)

KeyInit ==
    /\ Startup
    /\ resolution = NoResolution
    /\ ui = NoGuard
    /\ auth = NoProvider
    /\ dash = NoDashboard
    /\ \E root \in Roots, page_path \in KeyPaths, slash \in BOOLEAN :
        url = [NoUrl EXCEPT !.root = root, !.page_path = page_path,
                            !.pathname = Pathname(root, page_path, slash)]

\* A component under the route calls usePageId({root}).
key_usePageId ==
    /\ url.pageKey = None
    /\ url' = [url EXCEPT !.pageKey = Some(usePageId(url.pathname, url.root).pageKey)]
    /\ UNCHANGED <<backend, resolution, ui, auth, dash>>

\* GET /users/me names the page in its answer.
key_users_me ==
    /\ url.reported = None
    /\ url' = [url EXCEPT !.reported = Some(page_name(url.page_path))]
    /\ UNCHANGED <<backend, resolution, ui, auth, dash>>

KeyNext == key_usePageId \/ key_users_me

KeySpec == KeyInit /\ [][KeyNext]_vars

\* ======================================================== properties
\* What one step did to a request.
Answered(kind) == nreq' = nreq + 1 /\ reqs' = reqs /\ response'.kind = kind
Admitted(r, kind) == reqs[r].pc = "idle" /\ reqs'[r].pc # "idle" /\ reqs'[r].kind = kind
Moved(r, kind, pc) == At(r, kind, pc) /\ reqs'[r].pc # pc
Completed(r) == reqs[r].pc # "idle" /\ reqs'[r].pc = "idle" /\ reqs[r].status = 0
Emitted ==
    \/ nreq' = nreq + 1 /\ reqs' = reqs
    \/ \E r \in Slots : Completed(r)
    \/ \E r \in Slots : reqs[r].status = 0 /\ reqs'[r].status # 0

PublicRecord(p) == p \in DOMAIN pages /\ pages[p].public
Parent(p) == IF p = <<>> THEN <<>> ELSE [i \in 1..(Len(p) - 1) |-> p[i]]
Required(kind) ==
    CASE kind = "get_page" -> Read
      [] kind = "put_page" -> Write
      [] OTHER -> Admin
Guarded == {"put_page", "get_page_settings", "patch_page_settings"}

\* C1: a GET of a page whose record is public is answered 200 with the record's
\* contents for every caller, whatever groups the caller holds on the page and
\* also without a token; no such request is held back for a permission check.
C1_PublicReadAllowed ==
    [][/\ \A r \in Slots :
            Admitted(r, "get_page") => ~PublicRecord(reqs'[r].page_path)
       /\ (/\ Answered("get_page")
           /\ response'.token # BadToken
           /\ PublicRecord(response'.page_path))
            => /\ response'.status = HTTP_200_OK
               /\ response'.result = pages[response'.page_path].contents]_vars

C1_Witness ==
    /\ response.kind = "get_page"
    /\ response.token = NoToken
    /\ response.status = HTTP_200_OK
    /\ PublicRecord(response.page_path)
    /\ \E u \in Users : groups[response.page_path][u] = {}

\* C2: the public flag grants neither write nor admin: on a page whose record is
\* public a PUT gets past its check only if the caller holds write on the page,
\* an admin-settings GET or PATCH only if the caller holds admin, and an
\* authenticated caller who lacks the group is answered 403.
C2_PublicGrantsNoWriteNoAdmin ==
    [][\A kind \in Guarded :
        /\ \A r \in Slots :
            (Admitted(r, kind) /\ PublicRecord(reqs'[r].page_path))
                => /\ reqs'[r].token \in Users
                   /\ Required(kind) \in groups[reqs'[r].page_path][reqs'[r].token]
        /\ (/\ Answered(kind)
            /\ PublicRecord(response'.page_path)
            /\ response'.token \in Users
            /\ Required(kind) \notin groups[response'.page_path][response'.token])
             => response'.status = HTTP_403_FORBIDDEN]_vars

C2_Witness ==
    /\ response.kind = "put_page"
    /\ response.status = HTTP_403_FORBIDDEN
    /\ PublicRecord(response.page_path)
    /\ response.token \in Users
    /\ groups[response.page_path][response.token] = {}

\* C3: on a page whose record is not public, access is allowed exactly when the
\* required group is one of the groups the caller holds on the page; the groups
\* are independent (admin gives neither read nor write, read gives no write).
C3_AllowedIffMember ==
    [][/\ \A r \in Slots :
            Moved(r, "get_page", "permissions") =>
                IF Read \in groups[reqs[r].page_path][reqs[r].token]
                THEN reqs'[r].pc = "return"
                ELSE reqs'[r].pc = "idle" /\ response'.status = HTTP_403_FORBIDDEN
       /\ \A kind \in Guarded :
            /\ \A r \in Slots :
                (Admitted(r, kind) /\ ~PublicRecord(reqs'[r].page_path))
                    => Required(kind) \in groups[reqs'[r].page_path][reqs'[r].token]
            /\ (/\ Answered(kind)
                /\ response'.token \in Users
                /\ response'.page_path \in orgs
                /\ ~PublicRecord(response'.page_path))
                 => /\ response'.status = HTTP_403_FORBIDDEN
                    /\ Required(kind) \notin groups[response'.page_path][response'.token]]_vars

C3_Witness ==
    /\ response.kind = "put_page"
    /\ response.status = HTTP_403_FORBIDDEN
    /\ ~PublicRecord(response.page_path)
    /\ response.token \in Users
    /\ groups[response.page_path][response.token] = {Admin}

\* C4: a request without a token to an operation that requires a permission is
\* answered 401 and never 403; 403 goes only to an authenticated caller who
\* lacks the required group on the page that was checked.
C4_UnauthenticatedNotForbidden ==
    [][Emitted =>
        LET rs == response'
            checked == IF rs.kind = "post_page" THEN Parent(rs.page_path) ELSE rs.page_path
        IN  /\ rs.token = NoToken =>
                IF rs.kind = "get_page"
                THEN /\ rs.status # HTTP_403_FORBIDDEN
                     /\ (rs.page_path \in orgs /\ ~pages'[rs.page_path].public)
                            => rs.status = HTTP_401_UNAUTHORIZED
                ELSE rs.status = HTTP_401_UNAUTHORIZED
            /\ rs.status = HTTP_403_FORBIDDEN =>
                /\ rs.token \in Users
                /\ checked \in orgs
                /\ Required(rs.kind) \notin groups[checked][rs.token]]_vars

C4_Witness ==
    /\ response.kind = "get_page"
    /\ response.token = NoToken
    /\ response.status = HTTP_401_UNAUTHORIZED
    /\ response.page_path \in DOMAIN pages
    /\ ~pages[response.page_path].public

\* C5: a create of a page that exists, by an authenticated caller, is answered
\* 409 in the step that receives it, never goes on to create anything, and leaves
\* the page records, the organizations, the memberships and the groups as they were.
C5_CreateExistingConflict ==
    [][/\ \A r \in Slots :
            Admitted(r, "post_page") => reqs'[r].page_path \notin orgs
       /\ (/\ Answered("post_page")
           /\ response'.token \in Users
           /\ response'.page_path \in orgs)
            => /\ response'.status = HTTP_409_CONFLICT
               /\ UNCHANGED <<orgs, persons, groups, pages>>]_vars

C5_Witness ==
    /\ response.kind = "post_page"
    /\ response.status = HTTP_409_CONFLICT
    /\ response.page_path \in DOMAIN pages
    /\ pages[response.page_path].contents \in Bodies

\* C6: a page is created only under an existing parent on which the caller holds
\* admin: a missing parent is answered 404, a caller without admin on the parent
\* 403, and in both cases no organization is created and no record is stored; an
\* organization appears only by the create of a request that passed both checks.
C6_CreateNeedsParentAdmin ==
    [][/\ \A r \in Slots :
            Moved(r, "post_page", "parent") =>
                LET parent == Parent(reqs[r].page_path)
                    refused(status) ==
                        /\ reqs'[r].pc = "idle"
                        /\ response'.status = status
                        /\ UNCHANGED <<orgs, persons, groups, pages>>
                IN  /\ parent \notin orgs => refused(HTTP_404_NOT_FOUND)
                    /\ (parent \in orgs /\ Admin \notin groups[parent][reqs[r].token])
                            => refused(HTTP_403_FORBIDDEN)
                    /\ reqs'[r].pc = "suborg"
                            => parent \in orgs /\ Admin \in groups[parent][reqs[r].token]
       /\ orgs' # orgs =>
            \E r \in Slots :
                /\ At(r, "post_page", "suborg")
                /\ orgs' = orgs \cup {reqs[r].page_path}
                /\ Parent(reqs[r].page_path) \in orgs
                /\ Admin \in reqs[r].permissions
       /\ \A p \in DOMAIN pages' : p \in DOMAIN pages \/ p \in orgs]_vars

C6_Witness ==
    /\ response.kind = "post_page"
    /\ response.status = HTTP_404_NOT_FOUND
    /\ response.token \in Users
    /\ Parent(response.page_path) \notin orgs
    /\ response.page_path \notin orgs
    /\ response.page_path \notin DOMAIN pages

\* C7: the step that stores the record of a created page answers 204 and leaves
\* the record with the request's body as contents and with the public flag the
\* parent's record has at that moment (false when the parent has no record yet).
C7_CreateInheritsPublic ==
    [][\A r \in Slots :
        Moved(r, "post_page", "store") =>
            LET page == reqs[r].page_path
                parent == Parent(page)
            IN  /\ reqs'[r].pc = "idle"
                /\ response'.status = HTTP_204_NO_CONTENT
                /\ pages'[page].contents = reqs[r].body
                /\ pages'[page].public = (parent \in DOMAIN pages /\ pages[parent].public)
                /\ pages'[page].public = pages'[parent].public]_vars

C7_Witness ==
    /\ response.kind = "post_page"
    /\ response.status = HTTP_204_NO_CONTENT
    /\ pages[response.page_path].public
    /\ pages[response.page_path].contents \in Bodies
    /\ PublicRecord(Parent(response.page_path))

\* C8: a create gives the creating user, on the new page, exactly the groups the
\* user held on the parent when the create was checked (admin among them), and
\* gives no other user groups on the new page, which starts with none.
C8_CreatorGetsParentPermissions ==
    [][\A r \in Slots :
        LET page == reqs[r].page_path
            user == reqs[r].token
        IN  /\ (Moved(r, "post_page", "parent") /\ reqs'[r].pc = "suborg")
                => /\ reqs'[r].permissions = groups[Parent(page)][user]
                   /\ Admin \in reqs'[r].permissions
            /\ Moved(r, "post_page", "suborg")
                => /\ UNCHANGED <<persons, groups>>
                   /\ reqs'[r].pc = "permissions"
                        => \A u \in Users : groups[page][u] = {} /\ u \notin persons[page]
            /\ (Moved(r, "post_page", "permissions") /\ reqs'[r].pc = "store")
                => /\ groups' = [groups EXCEPT ![page][user] = reqs[r].permissions]
                   /\ persons' = [persons EXCEPT ![page] = @ \cup {user}]
            /\ Moved(r, "post_page", "store") => UNCHANGED <<persons, groups>>]_vars

C8_Witness ==
    /\ response.kind = "post_page"
    /\ response.status = HTTP_204_NO_CONTENT
    /\ response.token \in Users \ ADMIN_EMAILS
    /\ groups[response.page_path][response.token] = {Admin}
    /\ groups[Parent(response.page_path)][response.token] = {Admin}
    /\ \A u \in Users \ {response.token} : groups[response.page_path][u] = {}

\* C9, as claimed: every delete is answered 501, whoever the caller is and
\* whatever the page is.
C9_DeleteAlwaysNotImplemented ==
    response.kind = "delete_page" => response.status = HTTP_501_NOT_IMPLEMENTED

\* C9, amended: a delete never succeeds and changes nothing; it is answered 501
\* exactly when the caller is authenticated, the page exists and the caller
\* holds admin on it, and 401, 404 or 403 by the admin guard otherwise.
C9_DeleteNeverSucceeds ==
    [][/\ \A r \in Slots : ~Admitted(r, "delete_page")
       /\ Answered("delete_page") =>
            LET rs == response'
                passes == /\ rs.token \in Users
                          /\ rs.page_path \in orgs
                          /\ Admin \in groups[rs.page_path][rs.token]
            IN  /\ rs.status \in {HTTP_401_UNAUTHORIZED, HTTP_404_NOT_FOUND,
                                  HTTP_403_FORBIDDEN, HTTP_501_NOT_IMPLEMENTED}
                /\ rs.status = HTTP_501_NOT_IMPLEMENTED <=> passes
                /\ UNCHANGED <<orgs, persons, groups, pages>>]_vars

C9_Witness ==
    /\ response.kind = "delete_page"
    /\ response.status = HTTP_501_NOT_IMPLEMENTED
    /\ response.page_path \in DOMAIN pages
    /\ response.page_path \in orgs

\* C10: a page record, once it exists, exists in every later state: no step of
\* any request removes a key of the pages database.
C10_RecordsNeverRemoved ==
    [][\A p \in DOMAIN pages : p \in DOMAIN pages']_vars

C10_Witness ==
    /\ response.kind = "delete_page"
    /\ response.status = HTTP_501_NOT_IMPLEMENTED
    /\ Cardinality(DOMAIN pages) >= 2
    /\ response.page_path # ROOT_ORG_ID

\* The operations on an existing page, and the callers their identity check lets by.
NotCreate == {"get_page", "put_page", "delete_page", "get_page_settings", "patch_page_settings"}
Identified(kind, token) == IF kind = "get_page" THEN token # BadToken ELSE token \in Users

C12_LazyCreationIdempotent ==
    [][\A r \in Slots :
        LET received == Answered("get_page") \/ Admitted(r, "get_page")
            page == IF Answered("get_page") THEN response'.page_path ELSE reqs'[r].page_path
        IN  /\ received =>
                /\ \A p \in DOMAIN pages : pages'[p] = pages[p]
                /\ DOMAIN pages' \subseteq DOMAIN pages \cup {page}
                /\ page \in DOMAIN pages' \ DOMAIN pages
                        => pages'[page] = Page(FALSE, "default content")
                /\ (Answered("get_page") /\ response'.status = HTTP_200_OK)
                        => response'.result = pages'[page].contents
            /\ (Moved(r, "get_page", "permissions") \/ Moved(r, "get_page", "return"))
                => pages' = pages
            /\ (Moved(r, "get_page", "return") /\ reqs[r].content = None)
                => /\ response'.status = HTTP_200_OK
                   /\ response'.result = pages[reqs[r].page_path].contents]_vars

C12_Witness ==
    /\ response.kind = "get_page"
    /\ response.status = HTTP_200_OK
    /\ response.result = "default content"
    /\ pages[response.page_path] = Page(FALSE, "default content")
    /\ \E r \in Slots :
        /\ At(r, "get_page", "return")
        /\ reqs[r].page_path = response.page_path
        /\ reqs[r].content = None

\* The permission updates of a PATCH: the entry whose task ended in this step,
\* whether the task is the first of its request to fail, and whether it is
\* known to have been applied (the request had not failed and does not fail now).
TaskOf(r) ==
    IF ~At(r, "patch_page_settings", "gather") THEN {}
    ELSE IF reqs'[r].pc = "idle" THEN reqs[r].pending
    ELSE reqs[r].pending \ reqs'[r].pending
Entry(r, i) == The(reqs[r].updates.users)[i]
Failed(r) ==
    /\ reqs[r].status = 0
    /\ \/ reqs'[r].status = HTTP_500_INTERNAL_SERVER_ERROR
       \/ reqs'[r].pc = "idle" /\ response'.status = HTTP_500_INTERNAL_SERVER_ERROR
Applied(r) == reqs[r].status = 0 /\ ~Failed(r)

\* C13: an update of a PATCH that sets the empty set for a user and is applied
\* removes the user from the members of the page's organization when the page
\* is not the root page, and on the root page leaves the user a member with no
\* groups; no step of any request takes a member out of the root organization.
C13_EmptySetRemovesMember ==
    [][/\ \A r \in Slots : \A i \in TaskOf(r) :
            LET page == reqs[r].page_path
                user == Entry(r, i).id
            IN  (Applied(r) /\ Entry(r, i).permissions = Some({})) =>
                    /\ groups'[page][user] = {}
                    /\ IF page = <<>> THEN user \in persons'[page]
                                      ELSE user \notin persons'[page]
       /\ \A u \in persons[<<>>] : u \in persons'[<<>>]]_vars

C13_Witness ==
    /\ response.kind = "patch_page_settings"
    /\ response.status = HTTP_204_NO_CONTENT
    /\ response.page_path # <<>>
    /\ persons[response.page_path] = {}
    /\ response.token \notin persons[response.page_path]
    /\ response.token \in persons[<<>>]

\* What a step of a PATCH is.
PatchStep(r) ==
    \/ Admitted(r, "patch_page_settings")
    \/ At(r, "patch_page_settings", "body") /\ reqs'[r] # reqs[r]
    \/ TaskOf(r) # {}

\* C14: a PATCH changes only what it names.  An applied update leaves the listed
\* user with exactly the set of the entry on this page and changes the groups
\* of no other user and no other page; an entry without a set starts no update;
\* the step that writes the flag writes the patch's value when there is one and
\* changes no record when there is none; no step of a PATCH changes the
\* contents of a record, the organizations, or the flag of another page.
C14_PatchChangesOnlyNamed ==
    [][/\ Answered("patch_page_settings") => UNCHANGED <<orgs, persons, groups, pages>>
       /\ \A r \in Slots :
            LET page == reqs[r].page_path
                updates == reqs[r].updates
            IN  /\ Admitted(r, "patch_page_settings") => UNCHANGED <<orgs, persons, groups, pages>>
                /\ PatchStep(r) =>
                    /\ orgs' = orgs
                    /\ \A p \in DOMAIN pages :
                        /\ pages'[p].contents = pages[p].contents
                        /\ p # page => pages'[p] = pages[p]
                    /\ \A p \in DOMAIN pages' \ DOMAIN pages :
                        p = page /\ pages'[p].contents = "default content"
                /\ (At(r, "patch_page_settings", "body") /\ reqs'[r] # reqs[r]) =>
                    /\ UNCHANGED <<persons, groups>>
                    /\ IF updates.public = None THEN pages' = pages
                       ELSE pages'[page].public = The(updates.public)
                    /\ \A i \in reqs'[r].pending : Entry(r, i).permissions # None
                    /\ updates.users # None =>
                        \A i \in DOMAIN The(updates.users) :
                            Entry(r, i).permissions # None => i \in reqs'[r].pending
                /\ \A i \in TaskOf(r) :
                    LET user == Entry(r, i).id
                        set == The(Entry(r, i).permissions)
                        applied ==
                            /\ groups' = [groups EXCEPT ![page][user] = set]
                            /\ \A p \in PagePath : \A u \in Users :
                                (p # page \/ u # user) => (u \in persons'[p] <=> u \in persons[p])
                    IN  /\ pages' = pages
                        /\ IF Applied(r) THEN applied
                           ELSE applied \/ UNCHANGED <<persons, groups>>]_vars

C14_Witness ==
    \E r \in Slots :
        /\ At(r, "patch_page_settings", "gather")
        /\ reqs[r].status = 0
        /\ reqs[r].updates.public = None
        /\ Len(The(reqs[r].updates.users)) = 2
        /\ reqs[r].pending = {2}
        /\ PublicRecord(reqs[r].page_path)
        /\ groups[reqs[r].page_path]["u1"] = {Admin}
        /\ groups[reqs[r].page_path]["u2"] = {}

\* C15: a PATCH is not transactional.  The step in which an update of the
\* request first fails answers 500 and changes neither the groups, the members
\* nor any record, so that the updates applied before it and the flag written
\* before it stay; after that answer the request answers nothing more, and its
\* remaining updates are applied or fail one by one, none undoing another.
C15_PatchNotTransactional ==
    [][\A r \in Slots :
        /\ (TaskOf(r) # {} /\ Failed(r)) =>
            /\ response'.kind = "patch_page_settings"
            /\ response'.status = HTTP_500_INTERNAL_SERVER_ERROR
            /\ response'.page_path = reqs[r].page_path
            /\ UNCHANGED <<orgs, persons, groups, pages>>
        /\ (TaskOf(r) # {} /\ reqs[r].status # 0) =>
            /\ response' = response
            /\ pages' = pages
            /\ \A i \in TaskOf(r) :
                LET page == reqs[r].page_path
                    user == Entry(r, i).id
                IN  \/ UNCHANGED <<persons, groups>>
                    \/ groups' = [groups EXCEPT ![page][user] = The(Entry(r, i).permissions)]]_vars

C15_Witness ==
    /\ response.kind = "patch_page_settings"
    /\ response.status = HTTP_500_INTERNAL_SERVER_ERROR
    /\ nreq = 1
    /\ \A r \in Slots : reqs[r].pc = "idle"
    /\ PublicRecord(response.page_path)
    /\ groups[response.page_path]["u2"] = {Read, Write}
    /\ groups[response.page_path]["u1"] = {Admin, Read, Write}

\* The entry a member has in the admin view of a page: none without groups.
ViewEntry(page, u) ==
    IF groups[page][u] = {} THEN {}
    ELSE {[user |-> u, permissions |-> groups[page][u]]}

\* C16: the admin view is built from the members persons_get returns: the fetch
\* of a member adds the member with the groups held on the page when there are
\* any and adds nothing when there are none; a view that is returned holds no
\* entry without groups and at most one entry for a user; and a view built with
\* no other request received lists exactly the members that hold groups on the
\* page, each with those groups.
C16_ViewListsMembersWithGroups ==
    [][\A r \in Slots :
        LET rq == reqs[r]
            page == rq.page_path
        IN  /\ Moved(r, "get_page_settings", "persons") =>
                /\ reqs'[r].pending = persons[page]
                /\ reqs'[r].users = {}
            /\ Moved(r, "get_page_settings", "public") =>
                /\ reqs'[r].pc = "idle" <=> rq.pending = {}
                /\ reqs'[r].pc = "idle" => response'.status = HTTP_200_OK /\ response'.users = {}
                /\ reqs'[r].pc # "idle" => reqs'[r].users = {} /\ reqs'[r].pending = rq.pending
            /\ (At(r, "get_page_settings", "gather") /\ reqs'[r].pc = "gather" /\ reqs'[r] # rq) =>
                \E u \in rq.pending :
                    /\ reqs'[r].pending = rq.pending \ {u}
                    /\ reqs'[r].users = rq.users \cup ViewEntry(page, u)
            /\ (At(r, "get_page_settings", "gather") /\ reqs'[r].pc = "idle"
                    /\ response'.status = HTTP_200_OK) =>
                /\ \E u \in Users :
                    /\ rq.pending = {u}
                    /\ response'.users = rq.users \cup ViewEntry(page, u)
                /\ \A e \in response'.users : e.permissions # {}
                /\ \A e, f \in response'.users : e.user = f.user => e = f
                /\ nreq = 1 =>
                    response'.users = UNION {ViewEntry(page, u) : u \in persons[page]}]_vars

C16_Witness ==
    /\ response.kind = "get_page_settings"
    /\ response.status = HTTP_200_OK
    /\ response.users # {}
    /\ \E u \in persons[response.page_path] :
        /\ groups[response.page_path][u] = {}
        /\ \A e \in response.users : e.user # u
    /\ response.users = UNION {ViewEntry(response.page_path, u) : u \in persons[response.page_path]}

\* C17: the admin view is all or nothing.  Every step of the fan-out either
\* completes the fetch of one member that is still awaited, in whatever order,
\* or fails; the view is answered (200, with the flag and the entries) only by
\* the step that completes the last awaited fetch; a failed fetch ends the
\* request at once with 500 and an answer that carries no flag and no entry,
\* whatever had been fetched before.
C17_ViewAllOrNothing ==
    [][/\ \A r \in Slots :
            LET rq == reqs[r]
                page == rq.page_path
                completes(u) ==
                    /\ u \in rq.pending
                    /\ IF rq.pending = {u}
                       THEN /\ reqs'[r].pc = "idle"
                            /\ response'.status = HTTP_200_OK
                            /\ response'.public = rq.public
                            /\ response'.users = rq.users \cup ViewEntry(page, u)
                       ELSE /\ reqs'[r].pc = "gather"
                            /\ reqs'[r].pending = rq.pending \ {u}
                            /\ reqs'[r].users = rq.users \cup ViewEntry(page, u)
                            /\ response' = response
                fails ==
                    /\ reqs'[r].pc = "idle"
                    /\ response'.status = HTTP_500_INTERNAL_SERVER_ERROR
                    /\ response'.users = {}
                    /\ response'.public = None
            IN  (At(r, "get_page_settings", "gather") /\ reqs'[r] # rq) =>
                    /\ rq.pending # {}
                    /\ rq.public # None
                    /\ fails \/ \E u \in Users : completes(u)
       /\ (Emitted /\ response'.kind = "get_page_settings") =>
            IF response'.status = HTTP_200_OK
            THEN response'.public # None
            ELSE response'.public = None /\ response'.users = {}]_vars

C17_Witness ==
    /\ response.kind = "get_page_settings"
    /\ response.status = HTTP_500_INTERNAL_SERVER_ERROR
    /\ response.users = {}
    /\ response.public = None
    /\ \E u \in persons[response.page_path] : groups[response.page_path][u] # {}
    /\ \E r \in Slots :
        /\ At(r, "get_page_settings", "gather")
        /\ reqs[r].pending = {"u1"}
        /\ reqs[r].users = {}

\* The runs of characters other than the slash in a raw path.
Runs(s) == {i \in 1..Len(s) : s[i] # "/" /\ (i = 1 \/ s[i - 1] = "/")}

\* C18: a raw path and the same path with one more slash at the front, at the
\* end or next to another slash resolve to the same page path (so do, step by
\* step, any two paths that differ only in such slashes); the page path has one
\* element for every run of other characters and no empty element; the empty
\* path and "/" resolve to the empty page path of the root.
C18_SlashesIgnored ==
    resolution.page_path # None =>
        LET page_path == The(resolution.page_path) IN
        /\ resolution.other_path = Some(page_path)
        /\ \A i \in DOMAIN page_path : page_path[i] # ""
        /\ Len(page_path) = Cardinality(Runs(resolution.raw))
        /\ resolution.raw \in {<<>>, <<"/">>} => page_path = <<>>
        /\ resolution.other = <<"/">> => page_path = <<>>

C18_Witness ==
    /\ resolution.raw = <<"a", "/", "b">>
    /\ resolution.other = <<"a", "/", "/", "b">>
    /\ resolution.page_path = Some(<<"a", "b">>)
    /\ resolution.other_path = Some(<<"a", "b">>)

\* The name of the root followed by the elements of a page path, a slash
\* before each element; and the elements alone, a slash between them.
RECURSIVE NameUnderRoot(_)
NameUnderRoot(p) ==
    IF p = <<>> THEN ROOT_ORG_NAME
    ELSE NameUnderRoot(SubSeq(p, 1, Len(p) - 1)) \o "/" \o p[Len(p)]
RECURSIVE Joined(_)
Joined(p) ==
    IF p = <<>> THEN ""
    ELSE IF Len(p) = 1 THEN p[1]
    ELSE Joined(SubSeq(p, 1, Len(p) - 1)) \o "/" \o p[Len(p)]

\* C19, as claimed: for every page path, the empty one included, the name of the
\* organization is the root's name, a slash, and the elements joined by slashes.
C19_KeyIsRootSlashJoined ==
    resolution.org_name # None =>
        The(resolution.org_name) = ROOT_ORG_NAME \o "/" \o Joined(The(resolution.page_path))

\* C19, amended: the name of the organization is the root's name followed by a
\* slash and the joined elements when the page path is not empty, and the
\* root's name alone, with no slash, when it is empty.
C19_KeyIsJoinedUnderRoot ==
    resolution.org_name # None =>
        LET page_path == The(resolution.page_path) IN
        /\ The(resolution.org_name) = NameUnderRoot(page_path)
        /\ page_path # <<>> =>
            The(resolution.org_name) = ROOT_ORG_NAME \o "/" \o Joined(page_path)
        /\ page_path = <<>> => The(resolution.org_name) = ROOT_ORG_NAME

C19_Witness ==
    /\ resolution.raw = <<"/">>
    /\ resolution.page_path = Some(<<>>)
    /\ resolution.org_name = Some("MyOrg")

\* The page that the part of a URL after /{route}/ names.
UrlPage(pathname) == SelectSeq(SubSeq(pathname, 4, Len(pathname)), LAMBDA t : t # "/")

\* C20, as claimed: on /page/{page_path}, once the user's groups and the admin
\* data have been fetched, the guard renders the page for a signed-in user who
\* holds read on the page the URL names, admin or not, public or not.
C20_ReaderSeesPage ==
    (/\ ui.route.path = "page"
     /\ ui.me.state = "success"
     /\ ui.admin.state = "success"
     /\ Read \in groups[UrlPage(ui.pathname)][ui.user])
        => ui.view = "children"

\* What does hold on /page/{page_path}: the guard renders the page exactly when
\* the fetched admin data says public or read is among the groups the hook
\* kept; the 403 that a reader without admin gets for the admin data is parsed
\* as data and blocks nothing, so that on the first page of an instance whose
\* path has no element named like the route, a reader sees the page.
GuardRendersForKeptGroups ==
    (/\ ui.route.path = "page"
     /\ ui.me.state = "success"
     /\ ui.admin.state = "success")
        => /\ ui.view = "children" <=> (ui.admin.public = Some(TRUE) \/ Read \in ui.raw)
           /\ (/\ ui.navigations = 0
               /\ \A i \in DOMAIN UrlPage(ui.pathname) : UrlPage(ui.pathname)[i] # ui.route.path
               /\ Read \in groups[UrlPage(ui.pathname)][ui.user])
                => ui.view = "children"

GuardReaderWithoutAdmin ==
    /\ ui.route.path = "page"
    /\ ui.view = "children"
    /\ ui.admin.state = "success"
    /\ ui.admin.public = None
    /\ groups[UrlPage(ui.pathname)][ui.user] = {Read}
    /\ ~pages[UrlPage(ui.pathname)].public

\* C21, as claimed: on every guarded route, in the first page of a mounted
\* instance, the group set the guard tests once the user's groups have been
\* fetched is the set the signed-in user holds on the page the URL names.
C21_GuardTestsUrlPage ==
    (/\ ui.route \in Routes
     /\ ui.navigations = 0
     /\ ui.me.state = "success")
        => ui.raw = groups[UrlPage(ui.pathname)][ui.user]

\* C22, as claimed: on a public page, a route gated on write or admin is
\* rendered only if the required group is in the user's group set, be it the
\* set the guard keeps or the set held on the page the URL names.
C22_PublicOverrideOnlyRead ==
    (/\ ui.route \in Routes
     /\ ui.route.belongsTo # {Read}
     /\ pages[UrlPage(ui.pathname)].public
     /\ ui.view = "children")
        => \/ ui.route.belongsTo \subseteq ui.raw
           \/ ui.route.belongsTo \subseteq groups[UrlPage(ui.pathname)][ui.user]

\* C23, as claimed: on one provider instance, checkAuth resolves after login(u)
\* and rejects after a logout() that follows that login.
C23_CheckAuthFollowsSession ==
    auth.last.op = "checkAuth"
        => /\ auth.calls = <<"login">> => auth.last.outcome = "resolved"
           /\ auth.calls = <<"login", "logout">> => auth.last.outcome = "rejected"

\* C24: the step of a PUT that follows its permission check overwrites the
\* contents with the request's body and answers 204 whatever groups the caller
\* holds by then; nothing is checked again.
C24_OverwriteWithoutRecheck ==
    [][\A r \in Slots :
        Moved(r, "put_page", "body")
            => /\ pages'[reqs[r].page_path].contents = reqs[r].body
               /\ response'.kind = "put_page"
               /\ response'.status = HTTP_204_NO_CONTENT]_vars

\* A PUT has just overwritten the contents of a page on which its caller, who
\* passed the check, holds no write any more: a patch took it in between.
C24_Witness ==
    /\ \A r \in Slots : reqs[r].pc = "idle"
    /\ response.kind = "put_page"
    /\ response.status = HTTP_204_NO_CONTENT
    /\ response.token \in Users
    /\ Write \notin groups[response.page_path][response.token]
    /\ pages[response.page_path].contents \in Bodies

\* C25: when the platform call that sets the creator's permissions fails, the
\* create answers with an error, the suborganization stays and no record is
\* stored: the page has no record or the default one, its first lookup gives
\* public = false and the default contents, and every create of a page that
\* exists by an identified caller is answered 409.
C25_CreateNotAllOrNothing ==
    [][/\ \A r \in Slots :
            (Moved(r, "post_page", "permissions") /\ reqs'[r].pc = "idle")
                => LET page_id == reqs[r].page_path IN
                   /\ response'.kind = "post_page"
                   /\ response'.status = HTTP_500_INTERNAL_SERVER_ERROR
                   /\ page_id \in orgs'
                   /\ pages' = pages
                   /\ page_id \in DOMAIN pages' => pages'[page_id] = DefaultPage
                   /\ pages_getitem(pages', page_id)[page_id] = DefaultPage
       /\ (Answered("post_page") /\ response'.token \in Users /\ response'.page_path \in orgs)
            => response'.status = HTTP_409_CONFLICT]_vars

\* A create of a page under a public parent has failed after its
\* suborganization was made: the page exists and its record is not the one the
\* create would have stored.
C25_Witness ==
    /\ response.kind = "post_page"
    /\ response.status = HTTP_500_INTERNAL_SERVER_ERROR
    /\ response.page_path \in orgs
    /\ \A u \in Users : groups[response.page_path][u] = {}
    /\ pages_getitem(pages, Parent(response.page_path))[Parent(response.page_path)].public
    /\ pages_getitem(pages, response.page_path)[response.page_path] = DefaultPage

\* C26: a create is answered in the order 401, 409, 404, 403.  The step that
\* receives it answers 401 to a caller that is not identified, else 409 when
\* the page exists, and admits it otherwise; the next step answers 404 when the
\* parent is missing, else 403 when the caller lacks admin on the parent, and
\* goes on otherwise.  So 403 is given only to a request admitted for an absent
\* page, by the step that finds the parent.
C26_CreateCheckOrder ==
    [][/\ Answered("post_page")
            => /\ response'.token \notin Users => response'.status = HTTP_401_UNAUTHORIZED
               /\ response'.token \in Users
                    => response'.status = HTTP_409_CONFLICT /\ response'.page_path \in orgs
       /\ \A r \in Slots :
            /\ Admitted(r, "post_page")
                => reqs'[r].token \in Users /\ reqs'[r].page_path \notin orgs
            /\ Moved(r, "post_page", "parent")
                => LET parent == Parent(reqs[r].page_path) IN
                   IF parent \notin orgs
                   THEN reqs'[r].pc = "idle" /\ response'.status = HTTP_404_NOT_FOUND
                   ELSE IF Admin \notin groups[parent][reqs[r].token]
                   THEN reqs'[r].pc = "idle" /\ response'.status = HTTP_403_FORBIDDEN
                   ELSE reqs'[r].pc = "suborg"
            /\ (/\ reqs[r].kind = "post_page"
                /\ reqs[r].pc # "idle"
                /\ reqs'[r].pc = "idle"
                /\ response'.status = HTTP_403_FORBIDDEN)
                => reqs[r].pc = "parent" /\ Parent(reqs[r].page_path) \in orgs]_vars

\* A caller who holds no group on any page has asked for a page whose parent is
\* missing and got 404, not 403.
C26_Witness ==
    /\ response.kind = "post_page"
    /\ response.status = HTTP_404_NOT_FOUND
    /\ response.token \in Users
    /\ \A p \in PagePath : groups[p][response.token] = {}
    /\ response.page_path \notin orgs
    /\ Parent(response.page_path) \notin orgs

\* C27: nothing keeps an admin on a page.  An applied update of a PATCH whose
\* entry names the caller with a set without admin leaves the caller with
\* exactly that set; and a GET or PATCH of /admin on an existing page by an
\* identified caller who does not hold admin there is answered 403 by the step
\* that receives it and never admitted.
C27_AdminCanDemoteSelf ==
    [][/\ \A r \in Slots : \A i \in TaskOf(r) :
            LET page == reqs[r].page_path
                caller == reqs[r].token
                entry == Entry(r, i)
            IN  (/\ Applied(r)
                 /\ entry.id = caller
                 /\ entry.permissions # None
                 /\ Admin \notin The(entry.permissions))
                    => /\ groups'[page][caller] = The(entry.permissions)
                       /\ Admin \notin groups'[page][caller]
       /\ \A kind \in {"get_page_settings", "patch_page_settings"} :
            /\ (/\ Answered(kind)
                /\ response'.token \in Users
                /\ response'.page_path \in orgs
                /\ Admin \notin groups[response'.page_path][response'.token])
                    => response'.status = HTTP_403_FORBIDDEN
            /\ \A r \in Slots :
                Admitted(r, kind) => Admin \in groups[reqs'[r].page_path][reqs'[r].token]]_vars

\* The only admin of the root page has taken admin from themselves: no member
\* of the root page holds admin, and their next GET /admin there got 403.
C27_Witness ==
    /\ response.kind = "get_page_settings"
    /\ response.status = HTTP_403_FORBIDDEN
    /\ response.token \in ADMIN_EMAILS
    /\ response.page_path = ROOT_ORG_ID
    /\ \A u \in Users : Admin \notin groups[ROOT_ORG_ID][u]
    /\ \A r \in Slots : reqs[r].pc = "idle"

\* What /users/me reported for the page the URL of a guard leads usePageId to.
HeldOnCurrent(g) ==
    LET pageKey == usePageId(g.pathname, g.route.root).pageKey IN
    IF pageKey \in DOMAIN g.me.pages THEN g.me.pages[pageKey] ELSE {}

\* C28: useGroups sets isViewer, isEditor, isAdmin and raw in the render that
\* first has the user, from the groups of the page that is current then, and
\* no later step of the same instance changes them, a change of page included.
C28_FlagsComputedOnce ==
    [][/\ (~ui.initialised /\ ui'.initialised)
            => LET held == HeldOnCurrent(ui') IN
               /\ ui'.pathname = ui.pathname
               /\ ui'.raw = held
               /\ ui'.isViewer = (Read \in held)
               /\ ui'.isEditor = (Write \in held)
               /\ ui'.isAdmin = (Admin \in held)
       /\ ui.initialised
            => /\ ui'.initialised
               /\ ui'.raw = ui.raw
               /\ ui'.isViewer = ui.isViewer
               /\ ui'.isEditor = ui.isEditor
               /\ ui'.isAdmin = ui.isAdmin]_vars

\* The page has changed in a mounted instance and the flags are not those of
\* the page now current: the user is admin there and isAdmin is false.
C28_Witness ==
    /\ ui.initialised
    /\ ui.navigations > 0
    /\ Admin \in HeldOnCurrent(ui)
    /\ ~ui.isAdmin
    /\ ui.raw # HeldOnCurrent(ui)

\* The request a step of the dashboard has sent.
Sent == Len(dash'.sent) = Len(dash.sent) + 1
LastSent(d) == d.sent[Len(d.sent)]

\* C29: the page id of an AdminPage instance's first render stays with the
\* instance while it is mounted, and a group edit saved through the grid is
\* sent to that id: when it is answered 204 the edited user, a row of the page
\* shown, holds the edited set on the first page, and no group and no
\* membership of another page changes, the page shown included when it is
\* another one.
C29_GridEditGoesToFirstPage ==
    [][/\ (dash.mounted /\ dash'.mounted) => dash'.captured = dash.captured
       /\ (~dash.mounted /\ dash'.mounted) => dash'.captured = Some(dashPageId(dash'))
       /\ (Sent /\ LastSent(dash').by = "saveUserDataChange")
            => LET first == get_page_path(The(dash.captured)) IN
               /\ LastSent(dash').id = The(dash.captured)
               /\ \A p \in DashPages \ {first} :
                    groups'[p] = groups[p] /\ persons'[p] = persons[p]
               /\ LastSent(dash').status = HTTP_204_NO_CONTENT
                    => LET entry == The(LastSent(dash').data.users)[1] IN
                       /\ entry.id \in rows(dash)
                       /\ groups'[first][entry.id] = The(entry.permissions)]_vars

\* The dashboard was switched to another page with the instance mounted, a row
\* of the page shown was edited to read and write and saved, and the groups
\* changed on the first page, not on the page shown.
C29_Witness ==
    /\ dash.mounted
    /\ dash.sent # <<>>
    /\ LastSent(dash).by = "saveUserDataChange"
    /\ LastSent(dash).status = HTTP_204_NO_CONTENT
    /\ LastSent(dash).id = The(dash.captured)
    /\ get_page_path(The(dash.captured)) # get_page_path(dashPageId(dash))
    /\ groups[get_page_path(The(dash.captured))]["u1"] = {Read, Write}
    /\ groups[get_page_path(dashPageId(dash))]["u1"] = {Admin, Read, Write}

\* C30, as claimed: for every route root and every page path, the pageKey that
\* usePageId derives from /{root}/s1/.../sn, with or without a slash at the
\* end, is the key under which /users/me reports the page.
C30_PageKeyIsReportedKey ==
    (url.pageKey # None /\ url.reported # None) => The(url.pageKey) = The(url.reported)
====
